---- MODULE Spec2Model ----
(***************************************************************************)
(* A model of the yt-search terminal tool: the view-count normalizers of   *)
(* the variants, the result extractor, the query-intent analyzer with the  *)
(* request builder, and the interactive command loops.                     *)
(*                                                                         *)
(* Text is modelled as a sequence of one-character strings, so that        *)
(* str.replace, str.strip, the `in` substring test, int() and float() are  *)
(* computed character by character, as Python computes them.               *)
(***************************************************************************)
EXTENDS Integers, Sequences, FiniteSets, TLC

VARIABLES
    phase,        \* which component the behaviour exercises, and how far it got
    views_str,    \* normalizer: the input text
    parsed,       \* normalizer: outcome of each variant's normalizer
    html,         \* extractor: the response of the search page
    max_results,  \* extractor: the cap passed by the caller
    found,        \* extractor: what each variant's search function returned
    query,        \* analyzer: the query text
    given_filters,\* analyzer: the filters passed by the caller ({} for none)
    auto_filters, \* analyzer: the filters inferred from the query
    used_filters, \* analyzer: the merged filters the request is built from
    search_params,\* analyzer: the encoded request parameters
    script,       \* loop: which script's command loop runs
    loop,         \* loop: "prompt", or "crashed" once an exception left the loop
    current_query,   \* loop: the query of the latest search
    current_results, \* loop: the list the search function returned
    current_filters, \* loop (enhanced): SearchSession.current_filters
    sorted_results,  \* loop (plain): the lists the display function returned
    result_offset,   \* loop (plain, enhanced): the paging counter
    history,      \* loop (enhanced): SearchSession.history
    table,        \* terminal: the rows of the table displayed last
    notice,       \* terminal: the notice printed by the latest command
    opened,       \* the external action of the latest command, if it made one
    args_sort,    \* direct mode: the value of the -s/--sort option
    command,      \* loop: the first word of the latest line, "other" if it is no command
    request       \* loop: the fetch the latest command issued, if it issued one

extractorVars == <<html, max_results, found>>
normalizerVars == <<views_str, parsed>>
analyzerVars == <<query, given_filters, auto_filters, used_filters, search_params>>

loopVars ==
    <<script, loop, current_query, current_results, current_filters, sorted_results, result_offset,
      history, table, notice, opened, args_sort, command, request>>

vars == <<phase, normalizerVars, extractorVars, analyzerVars, loopVars>>

----------------------------------------------------------------------------
(* Bounds *)

\* longest free-form body of a view-count text (a unit word may follow it)
MaxBody == 3

\* most entries (video items, other items, section starts) of a page
MaxEntries == 3

\* most entries of a page that fails before the section list is reached
MaxBrokenEntries == 1

\* largest cap passed to an extractor
MaxCap == 3

\* most words of a query
MaxWords == 3

\* most searches of one run of a command loop
MaxSearches == 2

\* most `next` commands of one run of the plain command loop
MaxNext == 1

\* largest row number typed after open or url
MaxRow == 3

----------------------------------------------------------------------------
(* Python str primitives *)

Digits == {"0", "1", "2", "3", "4", "5", "6", "7", "8", "9"}

DigitVal(c) ==
    CASE c = "0" -> 0 [] c = "1" -> 1 [] c = "2" -> 2 [] c = "3" -> 3
      [] c = "4" -> 4 [] c = "5" -> 5 [] c = "6" -> 6 [] c = "7" -> 7
      [] c = "8" -> 8 [] c = "9" -> 9

RECURSIVE Pow10(_)
Pow10(n) == IF n = 0 THEN 1 ELSE 10 * Pow10(n - 1)

\* s[i..] starts with pat
StartsAt(s, i, pat) ==
    /\ i + Len(pat) - 1 <= Len(s)
    /\ \A k \in 1..Len(pat) : s[i + k - 1] = pat[k]

\* Python `pat in s`
Contains(s, pat) == \E i \in 1..(Len(s) + 1) : StartsAt(s, i, pat)

\* Python s.replace(pat, ''): leftmost non-overlapping occurrences, pat non-empty
RECURSIVE RemoveFrom(_, _, _)
RemoveFrom(s, i, pat) ==
    IF i > Len(s) THEN <<>>
    ELSE IF StartsAt(s, i, pat) THEN RemoveFrom(s, i + Len(pat), pat)
    ELSE <<s[i]>> \o RemoveFrom(s, i + 1, pat)

Remove(s, pat) == RemoveFrom(s, 1, pat)

\* Python s.strip(): the only whitespace of the modelled alphabet is the blank
RECURSIVE LStrip(_)
LStrip(s) == IF s # <<>> /\ Head(s) = " " THEN LStrip(Tail(s)) ELSE s

RECURSIVE RStrip(_)
RStrip(s) ==
    IF s # <<>> /\ s[Len(s)] = " " THEN RStrip(SubSeq(s, 1, Len(s) - 1)) ELSE s

Strip(s) == RStrip(LStrip(s))

LowerChar(c) ==
    CASE c = "K" -> "k" [] c = "M" -> "m" [] c = "B" -> "b"
      [] c = "F" -> "f" [] c = "S" -> "s" [] OTHER -> c

\* Python s.lower()
Lower(s) == [i \in 1..Len(s) |-> LowerChar(s[i])]

RECURSIVE DigitsVal(_)
DigitsVal(s) ==
    IF s = <<>> THEN 0
    ELSE 10 * DigitsVal(SubSeq(s, 1, Len(s) - 1)) + DigitVal(s[Len(s)])

AllDigits(s) == \A i \in 1..Len(s) : s[i] \in Digits

\* a sign, then the rest
Unsigned(s) == IF s # <<>> /\ s[1] \in {"-", "+"} THEN Tail(s) ELSE s
IsNeg(s) == s # <<>> /\ s[1] = "-"

\* Python integers are unbounded and a view count in the billions exceeds the
\* checker's machine integers, so an integer result is kept as m * 10^e in
\* canonical form: m carries no trailing zero, and zero is 0 * 10^0.
RECURSIVE PyInt(_, _)
PyInt(m, e) ==
    IF m = 0 THEN [m |-> 0, e |-> 0]
    ELSE IF m % 10 = 0 THEN PyInt(m \div 10, e + 1)
    ELSE [m |-> m, e |-> e]

Zero == PyInt(0, 0)

\* Python int(s) on a str: blanks stripped, optional sign, one or more digits.
\* ok = FALSE is ValueError.
ParseInt(s) ==
    LET t == Strip(s)
        u == Unsigned(t)
    IN  IF u # <<>> /\ AllDigits(u)
        THEN [ok |-> TRUE, val |-> PyInt(IF IsNeg(t) THEN 0 - DigitsVal(u) ELSE DigitsVal(u), 0)]
        ELSE [ok |-> FALSE, val |-> Zero]

\* Python float(s) on a str of the modelled alphabet: blanks stripped, optional
\* sign, digits with at most one point and at least one digit.  The value is
\* kept exactly, as num / 10^frac.  ok = FALSE is ValueError.
ParseFloat(s) ==
    LET t == Strip(s)
        u == Unsigned(t)
        dots == {i \in 1..Len(u) : u[i] = "."}
        d == Remove(u, <<".">>)
        fr == IF dots = {} THEN 0 ELSE Len(u) - (CHOOSE i \in dots : TRUE)
    IN  IF d # <<>> /\ AllDigits(d) /\ Cardinality(dots) <= 1
        THEN [ok |-> TRUE, neg |-> IsNeg(t), num |-> DigitsVal(d), frac |-> fr]
        ELSE [ok |-> FALSE, neg |-> FALSE, num |-> 0, frac |-> 0]

RECURSIVE Log10(_)
Log10(n) == IF n < 10 THEN 0 ELSE 1 + Log10(n \div 10)

\* int(number * multiplier), multiplier a power of ten: int() truncates toward
\* zero
Scaled(f, multiplier) ==
    LET k == Log10(multiplier)
        mag == IF f.frac <= k THEN PyInt(f.num, k - f.frac)
               ELSE PyInt(f.num \div Pow10(f.frac - k), 0)
    IN  [m |-> IF f.neg THEN 0 - mag.m ELSE mag.m, e |-> mag.e]

----------------------------------------------------------------------------
(* Outcomes of a call: a returned integer, or an exception that escapes *)

Return(v) == [raised |-> FALSE, exc |-> "", value |-> v]
Raise(e) == [raised |-> TRUE, exc |-> e, value |-> Zero]

ViewsWord == <<" ", "v", "i", "e", "w", "s">>
WatchingWord == <<"w", "a", "t", "c", "h", "i", "n", "g">>
NotAvailable == <<"N", "/", "A">>

\* the suffix table of the enhanced normalizer, in dict order
multipliers ==
    << [suffix |-> "K", multiplier |-> 1000],
       [suffix |-> "M", multiplier |-> 1000000],
       [suffix |-> "B", multiplier |-> 1000000000] >>

\* try: return int(views_str)  except: return 0
IntOrZero(s) == LET r == ParseInt(s) IN Return(IF r.ok THEN r.val ELSE Zero)

\* the enhanced normalizer's loop over the suffix table, from entry i on
RECURSIVE AdvancedSuffixLoop(_, _)
AdvancedSuffixLoop(s, i) ==
    IF i > Len(multipliers) THEN IntOrZero(s)
    ELSE IF Contains(s, <<multipliers[i].suffix>>)
         THEN LET f == ParseFloat(Strip(Remove(s, <<multipliers[i].suffix>>)))
              IN  IF f.ok THEN Return(Scaled(f, multipliers[i].multiplier))
                  ELSE Return(Zero)
         ELSE AdvancedSuffixLoop(s, i + 1)

\* youtube_search_enhanced.parse_view_count_advanced
parse_view_count_advanced(text) ==
    IF text = <<>> THEN Return(Zero)
    ELSE LET s1 == Strip(Remove(Remove(Remove(text, <<",">>), ViewsWord), WatchingWord))
             s2 == IF Contains(Lower(s1), WatchingWord)
                   THEN Strip(Remove(s1, WatchingWord)) ELSE s1
         IN  AdvancedSuffixLoop(s2, 1)

\* the M / K branches shared by the plain, fixed and module normalizers:
\* float() is called outside any try, so its ValueError escapes
AbbrevOrInt(s) ==
    IF Contains(s, <<"M">>)
    THEN LET f == ParseFloat(Remove(s, <<"M">>))
         IN  IF f.ok THEN Return(Scaled(f, 1000000)) ELSE Raise("ValueError")
    ELSE IF Contains(s, <<"K">>)
    THEN LET f == ParseFloat(Remove(s, <<"K">>))
         IN  IF f.ok THEN Return(Scaled(f, 1000)) ELSE Raise("ValueError")
    ELSE IntOrZero(s)

\* yt_search.search.YouTubeSearcher._parse_view_count
_parse_view_count(text) ==
    IF text = <<>> THEN Return(Zero)
    ELSE AbbrevOrInt(Strip(Remove(Remove(text, <<",">>), ViewsWord)))

\* youtube_search.parse_view_count
parse_view_count(text) ==
    IF text = <<>> \/ text = NotAvailable THEN Return(Zero)
    ELSE AbbrevOrInt(Remove(Remove(text, <<",">>), ViewsWord))

\* youtube_search_fixed.parse_view_count
parse_view_count_fixed(text) ==
    IF text = <<>> THEN Return(Zero)
    ELSE AbbrevOrInt(Strip(Remove(Remove(Remove(text, <<",">>), ViewsWord), WatchingWord)))

----------------------------------------------------------------------------
(* JSON values: an object is a record (a function on its keys), a list is a
   sequence; the empty object and the empty list are both <<>>. *)

EmptyDict == <<>>

\* Python d.get(key, default)
Get(d, key, default) == IF key \in DOMAIN d THEN d[key] ELSE default

VERIFIED == "BADGE_STYLE_TYPE_VERIFIED"

\* A parsed record or the exception that ended the parse
Parsed(rec) == [exc |-> "", rec |-> rec]
Failed(e) == [exc |-> e, rec |-> EmptyDict]

\* video.get(key, {}).get('runs', [{}])
RunsOf(video, key) == Get(Get(video, key, EmptyDict), "runs", <<EmptyDict>>)

\* video.get(key, {}).get('simpleText', '')
SimpleTextOf(video, key, default) == Get(Get(video, key, EmptyDict), "simpleText", default)

\* the loop over ownerBadges of the module and fixed variants
BadgeLoopVerified(video) ==
    /\ "ownerBadges" \in DOMAIN video
    /\ \E i \in 1..Len(video.ownerBadges) :
          /\ "metadataBadgeRenderer" \in DOMAIN video.ownerBadges[i]
          /\ Get(video.ownerBadges[i].metadataBadgeRenderer, "style", "") = VERIFIED

\* the enhanced variant looks at ownerBadges[0] only (the list is not empty)
FirstBadgeVerified(video) ==
    Get(Get(Get(video, "ownerBadges", <<EmptyDict>>)[1],
            "metadataBadgeRenderer", EmptyDict), "style", "") = VERIFIED

\* the fields every variant reads the same way, given the normalized views and
\* the verified flag; [0] on an empty runs list is IndexError
CommonFields(video, views, verified) ==
    [id |-> Get(video, "videoId", ""),
     title |-> Get(RunsOf(video, "title")[1], "text", "Unknown"),
     duration |-> SimpleTextOf(video, "lengthText", ""),
     views |-> views,
     views_text |-> SimpleTextOf(video, "viewCountText", <<>>),
     channel |-> Get(RunsOf(video, "ownerText")[1], "text", "Unknown"),
     channel_verified |-> verified,
     age |-> SimpleTextOf(video, "publishedTimeText", "")]

\* The record of an entry in the order the item loop reads it: title, view
\* count, channel, then the verified flag; `views` is the outcome of the
\* normalizer, `indexed` says that the flag is read with ownerBadges[0]
VideoRecord(video, views, indexed, verified) ==
    IF RunsOf(video, "title") = <<>> THEN Failed("IndexError")
    ELSE IF views.raised THEN Failed(views.exc)
    ELSE IF RunsOf(video, "ownerText") = <<>> THEN Failed("IndexError")
    ELSE IF indexed /\ Get(video, "ownerBadges", <<EmptyDict>>) = <<>> THEN Failed("IndexError")
    ELSE Parsed(CommonFields(video, views.value, verified))

\* youtube_search_enhanced.search_youtube_advanced, the body of the item loop
VideoDataAdvanced(video) ==
    VideoRecord(video, parse_view_count_advanced(SimpleTextOf(video, "viewCountText", <<>>)),
                TRUE, FirstBadgeVerified(video))

\* yt_search.search.YouTubeSearcher._parse_video
_parse_video(video) ==
    VideoRecord(video, _parse_view_count(SimpleTextOf(video, "viewCountText", <<>>)),
                FALSE, BadgeLoopVerified(video))

\* youtube_search_fixed.search_youtube_direct, the body of the item loop
VideoDataFixed(video) ==
    VideoRecord(video, parse_view_count_fixed(SimpleTextOf(video, "viewCountText", <<>>)),
                FALSE, BadgeLoopVerified(video))

\* youtube_search.search_youtube_direct, the body of the item loop: views is the
\* cleaned text, normalized only when the table is displayed
VideoDataPlain(video) ==
    IF RunsOf(video, "title") = <<>> \/ RunsOf(video, "ownerText") = <<>>
    THEN Failed("IndexError")
    ELSE Parsed([id |-> Get(video, "videoId", ""),
                 title |-> Get(RunsOf(video, "title")[1], "text", "Unknown"),
                 duration |-> SimpleTextOf(video, "lengthText", ""),
                 views |-> Remove(Remove(SimpleTextOf(video, "viewCountText", <<>>),
                                         ViewsWord), <<",">>),
                 channel |-> Get(RunsOf(video, "ownerText")[1], "text", "Unknown"),
                 age |-> SimpleTextOf(video, "publishedTimeText", "")])

VideoData(variant, video) ==
    CASE variant = "enhanced" -> VideoDataAdvanced(video)
      [] variant = "module" -> _parse_video(video)
      [] variant = "fixed" -> VideoDataFixed(video)
      [] variant = "plain" -> VideoDataPlain(video)

\* The two nested loops over the section list: section i, item j, the records
\* appended so far.  Ends with the exception that stopped it ("" for none) and
\* the records collected until then.
RECURSIVE ItemLoop(_, _, _, _, _, _)
RECURSIVE AppendAndCap(_, _, _, _, _, _, _)
ItemLoop(variant, contents, i, j, videos, cap) ==
    IF i > Len(contents) THEN [exc |-> "", videos |-> videos]
    ELSE IF "itemSectionRenderer" \notin DOMAIN contents[i]
         THEN ItemLoop(variant, contents, i + 1, 1, videos, cap)
    ELSE IF "contents" \notin DOMAIN contents[i].itemSectionRenderer
         THEN [exc |-> "KeyError", videos |-> videos]
    ELSE IF j > Len(contents[i].itemSectionRenderer.contents)
         THEN ItemLoop(variant, contents, i + 1, 1, videos, cap)
    ELSE IF "videoRenderer" \notin DOMAIN contents[i].itemSectionRenderer.contents[j]
         THEN ItemLoop(variant, contents, i, j + 1, videos, cap)
    ELSE AppendAndCap(variant, contents, i, j, videos, cap,
             VideoData(variant, contents[i].itemSectionRenderer.contents[j].videoRenderer))

\* the end of the loop body, given the outcome p of parsing the entry: the
\* record is appended, and only then is the length compared with the cap
AppendAndCap(variant, contents, i, j, videos, cap, p) ==
    IF p.exc # "" THEN [exc |-> p.exc, videos |-> videos]
    ELSE IF Len(videos) + 1 >= cap THEN [exc |-> "", videos |-> Append(videos, p.rec)]
    ELSE ItemLoop(variant, contents, i, j + 1, Append(videos, p.rec), cap)

PathKeys ==
    <<"contents", "twoColumnSearchResultsRenderer", "primaryContents",
      "sectionListRenderer", "contents">>

\* data['contents'][...]['contents']: the section list, or KeyError
RECURSIVE WalkPath(_, _)
WalkPath(d, k) ==
    IF k > Len(PathKeys) THEN [exc |-> "", contents |-> d]
    ELSE IF PathKeys[k] \notin DOMAIN d THEN [exc |-> "KeyError", contents |-> <<>>]
    ELSE WalkPath(d[PathKeys[k]], k + 1)

\* a is ordered before b by sorted(key=views, reverse=True) exactly when its
\* view count is the larger one
DigitCount(n) == IF n = 0 THEN 0 ELSE Log10(n) + 1
Magnitude(v) == IF v.m < 0 THEN [m |-> 0 - v.m, e |-> v.e] ELSE v
MagLess(a, b) ==
    LET la == DigitCount(a.m) + a.e
        lb == DigitCount(b.m) + b.e
        lo == IF a.e < b.e THEN a.e ELSE b.e
    IN  IF la # lb THEN la < lb
        ELSE a.m * Pow10(a.e - lo) < b.m * Pow10(b.e - lo)
\* a < b on Python integers
Less(a, b) ==
    IF a.m < 0 /\ b.m < 0 THEN MagLess(Magnitude(b), Magnitude(a))
    ELSE IF a.m < 0 THEN TRUE
    ELSE IF b.m < 0 THEN FALSE
    ELSE MagLess(a, b)

\* sorted(videos, key=..., reverse=True): a stable sort, the reverse flag keeps
\* the original order of equal keys.  Insertion from the left places a record
\* after every record whose key is not smaller.
\* an insertion that places a record before the records of equal key, as
\* reversing an ascending sort would
RECURSIVE InsertDescUnstable(_, _)
InsertDescUnstable(sorted, x) ==
    IF sorted = <<>> THEN <<x>>
    ELSE IF ~Less(x.key, Head(sorted).key) THEN <<x>> \o sorted
    ELSE <<Head(sorted)>> \o InsertDescUnstable(Tail(sorted), x)

RECURSIVE InsertDesc(_, _)
InsertDesc(sorted, x) ==
    IF sorted = <<>> THEN <<x>>
    ELSE IF Less(Head(sorted).key, x.key) THEN <<x>> \o sorted
    ELSE <<Head(sorted)>> \o InsertDesc(Tail(sorted), x)

RECURSIVE SortPairs(_)
SortPairs(pairs) ==
    IF pairs = <<>> THEN <<>>
    ELSE InsertDesc(SortPairs(SubSeq(pairs, 1, Len(pairs) - 1)), pairs[Len(pairs)])

\* sorted(videos, key=lambda x: keys[x], reverse=True)
SortedDesc(videos, keys) ==
    LET s == SortPairs([i \in 1..Len(videos) |-> [key |-> keys[i], rec |-> videos[i]]])
    IN  [i \in 1..Len(videos) |-> s[i].rec]

\* key=lambda x: x.get('views', 0)
ViewsKeys(videos) == [i \in 1..Len(videos) |-> Get(videos[i], "views", Zero)]

\* yt_search.search.YouTubeSearcher._sort_by_views
_sort_by_views(videos) == SortedDesc(videos, ViewsKeys(videos))

\* The text of a page from the opening brace after `var ytInitialData = ` on
\* is kept as its braces, its string values and the `;` after the block.
\* ({.*?}); : the index of the first `}` that a `;` follows, 0 without one
RECURSIVE FirstCloser(_, _)
FirstCloser(text, i) ==
    IF i >= Len(text) THEN 0
    ELSE IF text[i] = "}" /\ text[i + 1] = ";" THEN i
    ELSE FirstCloser(text, i + 1)

\* match.group(1): the text from the opening brace to that `}`
DataBlock(text) ==
    IF text = <<>> \/ text[1] # "{" THEN <<>> ELSE SubSeq(text, 1, FirstCloser(text, 2))

\* the index of the brace that balances the opening brace, braces inside
\* string values not counted; 0 when the text ends before it
RECURSIVE BalanceAt(_, _, _, _)
BalanceAt(text, i, depth, instr) ==
    IF i > Len(text) THEN 0
    ELSE IF instr THEN BalanceAt(text, i + 1, depth, text[i] # "\"")
    ELSE IF text[i] = "\"" THEN BalanceAt(text, i + 1, depth, TRUE)
    ELSE IF text[i] = "{" THEN BalanceAt(text, i + 1, depth + 1, FALSE)
    ELSE IF text[i] = "}" THEN (IF depth = 1 THEN i ELSE BalanceAt(text, i + 1, depth - 1, FALSE))
    ELSE BalanceAt(text, i + 1, depth, FALSE)

\* json.loads accepts the text: an object that ends with its balancing brace
IsJsonObject(text) == text # <<>> /\ BalanceAt(text, 1, 0, FALSE) = Len(text)

\* a load that takes the text for matched whether the anchor is there or not
LoadedWithoutAnchorTest(page) ==
    IF ~page.fetched THEN [exc |-> "URLError", matched |-> FALSE, data |-> EmptyDict]
    ELSE IF DataBlock(page.text) = <<>>
    THEN [exc |-> "", matched |-> FALSE, data |-> EmptyDict]
    ELSE IF ~page.json \/ ~IsJsonObject(DataBlock(page.text))
    THEN [exc |-> "JSONDecodeError", matched |-> TRUE, data |-> EmptyDict]
    ELSE [exc |-> "", matched |-> TRUE, data |-> page.data]

\* What the page yields up to json.loads: the fetch may fail (URLError), the
\* anchor pattern may not match, the matched text may not be JSON
\* (json.JSONDecodeError, a ValueError).  page.json: the whole block is JSON;
\* json.loads of the whole block gives page.data.  [exc, matched, data]
Loaded(page) ==
    IF ~page.fetched THEN [exc |-> "URLError", matched |-> FALSE, data |-> EmptyDict]
    ELSE IF ~page.anchor \/ DataBlock(page.text) = <<>>
    THEN [exc |-> "", matched |-> FALSE, data |-> EmptyDict]
    ELSE IF ~page.json \/ ~IsJsonObject(DataBlock(page.text))
    THEN [exc |-> "JSONDecodeError", matched |-> TRUE, data |-> EmptyDict]
    ELSE [exc |-> "", matched |-> TRUE, data |-> page.data]

\* The result of a search call: the returned list, and the exception the
\* function caught on the way ("" for none; none ever escapes, the outer
\* handler is `except Exception`)
Result(videos, caught) == [videos |-> videos, caught |-> caught]

\* what the scripts return after the loops: every exception gives []
Returned(r) == IF r.exc # "" THEN Result(<<>>, r.exc) ELSE Result(r.videos, "")

\* what the scripts do with the walked path w
SearchContents(variant, w, cap) ==
    IF w.exc # "" THEN Result(<<>>, w.exc)
    ELSE Returned(ItemLoop(variant, w.contents, 1, 1, <<>>, cap))

\* what the scripts do with the loaded response l
SearchLoaded(variant, l, cap) ==
    IF l.exc # "" THEN Result(<<>>, l.exc)
    ELSE IF ~l.matched THEN Result(<<>>, "")
    ELSE SearchContents(variant, WalkPath(l.data, 1), cap)

\* search_youtube_advanced / search_youtube_direct: try ... except KeyError:
\* return [] inside try ... except Exception: return []
SearchDirect(variant, page, cap) == SearchLoaded(variant, Loaded(page), cap)

\* youtube_search_enhanced.search_youtube_advanced, from the response on
search_youtube_advanced(page, cap) == SearchDirect("enhanced", page, cap)

\* what the module returns after the loops: except KeyError: pass, then the
\* records collected so far are sorted and returned; another exception gives []
ReturnedSorted(r) ==
    IF r.exc \notin {"", "KeyError"} THEN Result(<<>>, r.exc)
    ELSE Result(_sort_by_views(r.videos), r.exc)

ModuleContents(w, cap) ==
    IF w.exc # "" THEN Result(_sort_by_views(<<>>), w.exc)
    ELSE ReturnedSorted(ItemLoop("module", w.contents, 1, 1, <<>>, cap))

ModuleLoaded(l, cap) ==
    IF l.exc # "" THEN Result(<<>>, l.exc)
    ELSE IF ~l.matched THEN Result(<<>>, "")
    ELSE ModuleContents(WalkPath(l.data, 1), cap)

\* yt_search.search.YouTubeSearcher.search
YouTubeSearcher_search(page, cap) == ModuleLoaded(Loaded(page), cap)

----------------------------------------------------------------------------
(* Python dict primitives for the filter maps *)

\* d[key] = value
Put(d, key, value) ==
    [k \in DOMAIN d \cup {key} |-> IF k = key THEN value ELSE d[k]]

\* d.update(other)
Update(d, other) ==
    [k \in DOMAIN d \cup DOMAIN other |-> IF k \in DOMAIN other THEN other[k] ELSE d[k]]

\* the truth value of d.get(key) for the keys holding True/False
TruthyFlag(d, key) == key \in DOMAIN d /\ d[key] = TRUE

\* the truth value of d.get(key) for the keys holding text
TruthyText(d, key) == key \in DOMAIN d /\ d[key] # ""

\* the truth value of d.get(key) for the keys holding character sequences
TruthyChars(d, key) == key \in DOMAIN d /\ d[key] # <<>>

----------------------------------------------------------------------------
(* The query-intent analyzer and the request builder of the enhanced variant *)

tutorial_keywords ==
    { <<"t", "u", "t", "o", "r", "i", "a", "l">>,
      <<"h", "o", "w", " ", "t", "o">>,
      <<"l", "e", "a", "r", "n">>,
      <<"b", "e", "g", "i", "n", "n", "e", "r">>,
      <<"c", "o", "u", "r", "s", "e">>,
      <<"g", "u", "i", "d", "e">>,
      <<"e", "x", "p", "l", "a", "i", "n", "e", "d">> }

music_keywords ==
    { <<"m", "u", "s", "i", "c">>,
      <<"s", "o", "n", "g">>,
      <<"a", "l", "b", "u", "m">>,
      <<"l", "y", "r", "i", "c", "s">>,
      <<"o", "f", "f", "i", "c", "i", "a", "l", " ", "v", "i", "d", "e", "o">>,
      <<"a", "u", "d", "i", "o">> }

recency_keywords ==
    { <<"l", "a", "t", "e", "s", "t">>,
      <<"n", "e", "w">>,
      <<"2", "0", "2", "4">>,
      <<"2", "0", "2", "5">>,
      <<"r", "e", "c", "e", "n", "t">>,
      <<"t", "o", "d", "a", "y">> }

W_best == <<"b", "e", "s", "t">>
W_top == <<"t", "o", "p">>
W_short == <<"s", "h", "o", "r", "t">>
W_quick == <<"q", "u", "i", "c", "k">>
W_full == <<"f", "u", "l", "l">>
W_complete == <<"c", "o", "m", "p", "l", "e", "t", "e">>

\* any(keyword in clean_query for keyword in keywords)
AnyIn(keywords, clean_query) == \E keyword \in keywords : Contains(clean_query, keyword)

\* \w of the regular expressions, on the modelled alphabet
NonWordChars == {" ", "\"", ":", ",", ".", "-", "/", "%", "=", "&", "+"}
IsWordChar(c) == c \notin NonWordChars

\* \b at the gap before position i of s
Boundary(s, i) ==
    LET before == i > 1 /\ IsWordChar(s[i - 1])
        after == i <= Len(s) /\ IsWordChar(s[i])
    IN  before # after

\* YearAt with the decade left open: the pattern \b(20[0-9]{2})\b
YearAtAnyDecade(s, i) ==
    /\ i + 3 <= Len(s)
    /\ s[i] = "2" /\ s[i + 1] = "0" /\ s[i + 2] \in Digits /\ s[i + 3] \in Digits
    /\ Boundary(s, i) /\ Boundary(s, i + 4)

\* the pattern \b(202[0-9])\b matches at position i
YearAt(s, i) ==
    /\ i + 3 <= Len(s)
    /\ s[i] = "2" /\ s[i + 1] = "0" /\ s[i + 2] = "2" /\ s[i + 3] \in Digits
    /\ Boundary(s, i) /\ Boundary(s, i + 4)

\* re.search(r'\b(202[0-9])\b', query): the leftmost match, <<>> for None
YearMatch(s) ==
    LET at == {i \in 1..Len(s) : YearAt(s, i)}
    IN  IF at = {} THEN <<>>
        ELSE LET i == CHOOSE i \in at : \A j \in at : i <= j
             IN  SubSeq(s, i, i + 3)

\* DurationPreference with the two branches in the other order
DurationPreferenceLongFirst(filters, clean_query) ==
    IF Contains(clean_query, W_full) \/ Contains(clean_query, W_complete)
    THEN Put(filters, "duration", "long")
    ELSE IF Contains(clean_query, W_short) \/ Contains(clean_query, W_quick)
    THEN Put(filters, "duration", "short")
    ELSE filters

\* DurationPreference that keeps a duration an earlier rule has set
DurationPreferenceKeepFirst(filters, clean_query) ==
    IF "duration" \in DOMAIN filters THEN filters
    ELSE IF Contains(clean_query, W_short) \/ Contains(clean_query, W_quick)
    THEN Put(filters, "duration", "short")
    ELSE IF Contains(clean_query, W_full) \/ Contains(clean_query, W_complete)
    THEN Put(filters, "duration", "long")
    ELSE filters

\* the duration preference: if 'short'/'quick' ... elif 'full'/'complete' ...
DurationPreference(filters, clean_query) ==
    IF Contains(clean_query, W_short) \/ Contains(clean_query, W_quick)
    THEN Put(filters, "duration", "short")
    ELSE IF Contains(clean_query, W_full) \/ Contains(clean_query, W_complete)
    THEN Put(filters, "duration", "long")
    ELSE filters

\* SearchEnhancer.parse_search_intent: the filters it returns (the query is
\* returned unchanged)
parse_search_intent(q) ==
    LET clean_query == Lower(q)
        f1 == IF AnyIn(tutorial_keywords, clean_query)
              THEN Put(Put(EmptyDict, "type", "educational"), "duration", "medium")
              ELSE EmptyDict
        f2 == IF AnyIn(music_keywords, clean_query) THEN Put(f1, "type", "music") ELSE f1
        f3 == IF AnyIn(recency_keywords, clean_query)
              THEN Put(Put(f2, "upload_date", "month"), "sort", "date")
              ELSE f2
        f4 == IF Contains(clean_query, W_best) \/ Contains(clean_query, W_top)
              THEN Put(f3, "sort", "views")
              ELSE f3
        f5 == IF YearMatch(q) # <<>> THEN Put(f4, "year", YearMatch(q)) ELSE f4
    IN  DurationPreference(f5, clean_query)

\* a merge in which the inferred values win
MergeFiltersInferredFirst(inferred, explicit) == Update(explicit, inferred)

\* auto_filters.update(filters) when explicit filters are given and not empty
MergeFilters(inferred, explicit) ==
    IF explicit # EmptyDict THEN Update(inferred, explicit) ELSE inferred

ChannelPrefix == <<" ", "c", "h", "a", "n", "n", "e", "l", ":">>
SearchQueryKey == <<"s", "e", "a", "r", "c", "h", "_", "q", "u", "e", "r", "y", "=">>
SpKey == <<"&", "s", "p", "=">>

date_filters == {"today", "week", "month", "year"}
duration_filters == {"short", "medium", "long"}

\* the sort_filters table
sort_filters ==
    [relevance |-> <<>>,
     date |-> <<"C", "A", "I", "%", "3", "D">>,
     views |-> <<"C", "A", "M", "%", "3", "D">>,
     rating |-> <<"C", "A", "E", "%", "3", "D">>]

\* urllib.parse.quote_plus on one character of the modelled alphabet
QuoteChar(c) ==
    CASE c = " " -> <<"+">>
      [] c = "\"" -> <<"%", "2", "2">>
      [] c = ":" -> <<"%", "3", "A">>
      [] c = "%" -> <<"%", "2", "5">>
      [] c = "," -> <<"%", "2", "C">>
      [] c = "/" -> <<"%", "2", "F">>
      [] c = "=" -> <<"%", "3", "D">>
      [] c = "&" -> <<"%", "2", "6">>
      [] c = "+" -> <<"%", "2", "B">>
      [] OTHER -> <<c>>

RECURSIVE QuotePlus(_)
QuotePlus(s) == IF s = <<>> THEN <<>> ELSE QuoteChar(Head(s)) \o QuotePlus(Tail(s))

\* the sp_filters list the builder collects and never reads again
SpFilters(filters) ==
    (IF TruthyText(filters, "upload_date") /\ filters.upload_date \in date_filters
     THEN <<filters.upload_date>> ELSE <<>>)
    \o (IF TruthyText(filters, "duration") /\ filters.duration \in duration_filters
        THEN <<filters.duration>> ELSE <<>>)
    \o (IF TruthyFlag(filters, "hd") THEN <<"hd">> ELSE <<>>)

\* the params dict of the builder
SearchParams(q, filters) ==
    LET quoted == IF TruthyFlag(filters, "exact") THEN <<"\"">> \o q \o <<"\"">> ELSE q
        enhanced_query == IF TruthyChars(filters, "channel")
                          THEN quoted \o ChannelPrefix \o filters.channel
                          ELSE quoted
        sp == IF TruthyText(filters, "sort") /\ filters.sort \in DOMAIN sort_filters
              THEN sort_filters[filters.sort] ELSE <<>>
    IN  [search_query |-> enhanced_query, sp |-> sp]

\* SearchEnhancer.build_search_query: urlencode(params)
build_search_query(q, filters) ==
    LET params == SearchParams(q, filters)
    IN  SearchQueryKey \o QuotePlus(params.search_query) \o SpKey \o QuotePlus(params.sp)

----------------------------------------------------------------------------
(* Inputs of the normalizers *)

BodyChars == {"1", "5", "0", ".", ",", " ", "-", "K", "M", "B", "x"}

RECURSIVE SeqsUpTo(_, _)
SeqsUpTo(S, n) ==
    IF n = 0 THEN {<<>>}
    ELSE LET shorter == SeqsUpTo(S, n - 1)
         IN  shorter \cup {Append(s, c) : s \in {t \in shorter : Len(t) = n - 1}, c \in S}

UnitWords == {<<>>, ViewsWord, <<" ">> \o WatchingWord}

ViewTexts == {b \o u : b \in SeqsUpTo(BodyChars, MaxBody), u \in UnitWords}

Variants == {"enhanced", "module", "plain", "fixed"}

NoOutcome == [v \in Variants |-> Return(Zero)]

----------------------------------------------------------------------------
(* Inputs of the extractors *)

Text850Views == <<"8", "5", "0">> \o ViewsWord
Text2M1Views == <<"2", ".", "1", "M">> \o ViewsWord
Text12KWatching == <<"1", "2", "K", " ">> \o WatchingWord

VerifiedBadge == [metadataBadgeRenderer |-> [style |-> VERIFIED]]
OtherBadge == [metadataBadgeRenderer |-> [style |-> "BADGE_STYLE_TYPE_SIMPLE"]]

Runs(text) == [runs |-> <<[text |-> text]>>]
Simple(text) == [simpleText |-> text]

\* the shapes of video-renderer entries a page is drawn from; videoId is given
\* by the entry's position in the page
VideoShapes ==
    [ plain850 |->
        [title |-> Runs("T"), ownerText |-> Runs("Ch"),
         viewCountText |-> Simple(Text850Views),
         lengthText |-> Simple("3:05"), publishedTimeText |-> Simple("1 day ago")],
      verified2M |->
        [title |-> Runs("T"), ownerText |-> Runs("Ch"),
         viewCountText |-> Simple(Text2M1Views), ownerBadges |-> <<VerifiedBadge>>,
         lengthText |-> Simple("3:05"), publishedTimeText |-> Simple("1 day ago")],
      secondBadge850 |->
        [title |-> Runs("T"), ownerText |-> Runs("Ch"),
         viewCountText |-> Simple(Text850Views),
         ownerBadges |-> <<OtherBadge, VerifiedBadge>>,
         lengthText |-> Simple("3:05"), publishedTimeText |-> Simple("1 day ago")],
      live12K |->
        [title |-> Runs("T"), ownerText |-> Runs("Ch"),
         viewCountText |-> Simple(Text12KWatching)],
      bare |-> EmptyDict,
      noTitleRuns |->
        [title |-> [runs |-> <<>>], ownerText |-> Runs("Ch"),
         viewCountText |-> Simple(Text850Views),
         lengthText |-> Simple("3:05"), publishedTimeText |-> Simple("1 day ago")],
      noBadges |->
        [title |-> Runs("T"), ownerText |-> Runs("Ch"),
         viewCountText |-> Simple(Text850Views), ownerBadges |-> <<>>,
         lengthText |-> Simple("3:05"), publishedTimeText |-> Simple("1 day ago")],
      closerTitle |->
        [title |-> Runs("a};b"), ownerText |-> Runs("Ch"),
         viewCountText |-> Simple(Text850Views),
         lengthText |-> Simple("3:05"), publishedTimeText |-> Simple("1 day ago")] ]

ShapeNames == DOMAIN VideoShapes

\* an entry of a page: a video of some shape, another renderer inside an item
\* section (an ad, a shelf), the start of the next item section, or a section
\* that is no item section
Entries == ShapeNames \cup {"ad", "section", "other"}

IdNames == <<"v1", "v2", "v3", "v4", "v5", "v6", "v7", "v8">>

WithId(video, id) ==
    [k \in DOMAIN video \cup {"videoId"} |-> IF k = "videoId" THEN id ELSE video[k]]

ItemOf(entry, n) ==
    IF entry = "ad" THEN [adSlotRenderer |-> EmptyDict]
    ELSE [videoRenderer |-> WithId(VideoShapes[entry], IdNames[n])]

ItemSection(items) == [itemSectionRenderer |-> [contents |-> items]]
OtherSection == [continuationItemRenderer |-> EmptyDict]

\* the section list spelled by a sequence of entries: the entries before the
\* first section start form the first item section
RECURSIVE SectionsFrom(_, _, _)
SectionsFrom(entries, n, items) ==
    IF n > Len(entries) THEN <<ItemSection(items)>>
    ELSE IF entries[n] = "section"
         THEN <<ItemSection(items)>> \o SectionsFrom(entries, n + 1, <<>>)
    ELSE IF entries[n] = "other"
         THEN <<ItemSection(items), OtherSection>> \o SectionsFrom(entries, n + 1, <<>>)
    ELSE SectionsFrom(entries, n + 1, Append(items, ItemOf(entries[n], n)))

SectionList(entries) == SectionsFrom(entries, 1, <<>>)

\* the data object holding the first `depth` keys of the path; with all of
\* them, the innermost value is the section list
RECURSIVE Nested(_, _, _)
Nested(k, depth, contents) ==
    IF k > depth THEN (IF depth = Len(PathKeys) THEN contents ELSE EmptyDict)
    ELSE [key \in {PathKeys[k]} |-> Nested(k + 1, depth, contents)]

\* the characters of the title an entry carries
TitleChars(entry) ==
    IF entry = "closerTitle" THEN <<"a", "}", ";", "b">>
    ELSE IF entry \in {"plain850", "verified2M", "secondBadge850", "live12K", "noBadges"}
    THEN <<"T">>
    ELSE <<>>

\* the braces and string values of the entries as the page text holds them
RECURSIVE EntriesText(_)
EntriesText(entries) ==
    IF entries = <<>> THEN <<>>
    ELSE <<"{", "\"">> \o TitleChars(Head(entries)) \o <<"\"", "}">>
         \o EntriesText(Tail(entries))

\* the data block of a page and the `;` that ends the assignment
BlockText(entries) == <<"{">> \o EntriesText(entries) \o <<"}", ";">>

Page(fetched, anchor, json, depth, entries) ==
    [fetched |-> fetched, anchor |-> anchor, json |-> json,
     text |-> BlockText(entries),
     data |-> Nested(1, depth, SectionList(entries))]

ConformantPages ==
    {Page(TRUE, TRUE, TRUE, Len(PathKeys), es) : es \in SeqsUpTo(Entries, MaxEntries)}

BrokenPages ==
    {Page(f[1], f[2], f[3], f[4], es) :
        f \in ({<<FALSE, TRUE, TRUE, Len(PathKeys)>>,
                <<TRUE, FALSE, TRUE, Len(PathKeys)>>,
                <<TRUE, TRUE, FALSE, Len(PathKeys)>>}
               \cup {<<TRUE, TRUE, TRUE, d>> : d \in 0..(Len(PathKeys) - 1)}),
        es \in SeqsUpTo(Entries, MaxBrokenEntries)}

NoPage == Page(FALSE, FALSE, FALSE, 0, <<>>)

NoResults == [v \in Variants |-> Result(<<>>, "")]

----------------------------------------------------------------------------
(* Inputs of the analyzer *)

Vocabulary ==
    { <<"t", "u", "t", "o", "r", "i", "a", "l">>,
      <<"c", "o", "u", "r", "s", "e">>,
      <<"q", "u", "i", "c", "k">>,
      <<"s", "h", "o", "r", "t">>,
      <<"f", "u", "l", "l">>,
      <<"c", "o", "m", "p", "l", "e", "t", "e">>,
      <<"B", "e", "a", "u", "t", "i", "f", "u", "l">>,
      <<"2", "0", "2", "4">>,
      <<"2", "0", "2", "5">>,
      <<"2", "0", "1", "9">>,
      <<"b", "e", "s", "t">> }

\* ' '.join(words)
RECURSIVE Join(_)
Join(words) ==
    IF words = <<>> THEN <<>>
    ELSE IF Len(words) = 1 THEN words[1]
    ELSE words[1] \o <<" ">> \o Join(Tail(words))

\* the loop strips its input and drops empty lines, so a query has a word
Queries == {Join(ws) : ws \in SeqsUpTo(Vocabulary, MaxWords) \ {<<>>}}

\* the filter maps the command loop passes: none, `exact`, and the documented
\* `filter duration|date|sort|hd` commands
GivenFilters ==
    { EmptyDict,
      [exact |-> TRUE],
      [duration |-> "long"],
      [date |-> "week", hd |-> TRUE],
      [sort |-> "views", duration |-> "short"] }

NoAnalysis ==
    /\ query = <<>>
    /\ given_filters = EmptyDict
    /\ auto_filters = EmptyDict
    /\ used_filters = EmptyDict
    /\ search_params = <<>>

NoNormalization == views_str = <<>> /\ parsed = NoOutcome

NoExtraction == html = NoPage /\ max_results = 0 /\ found = NoResults

NoAction == [cmd |-> "", n |-> 0, id |-> ""]

\* Python's None, as the filters argument of a search without filters
None == [none |-> TRUE]

\* a call of the search function for the query q with the filters argument
\* `filters`, and how the function ended: "" when it returned what its loops
\* collected, "NoMatch" when the anchor pattern did not match, or the name of
\* the exception it caught
Request(q, filters, failure) ==
    [issued |-> TRUE, query |-> q, filters |-> filters, failure |-> failure,
     used |-> EmptyDict]

\* a command that does not call the search function
NoRequest ==
    [issued |-> FALSE, query |-> <<>>, filters |-> None, failure |-> "", used |-> EmptyDict]

\* the call for the response `page` that gave the result r
Fetched(q, filters, page, r) ==
    Request(q, filters, IF page.fetched /\ ~page.anchor THEN "NoMatch" ELSE r.caught)

\* the call of search_youtube_advanced: `used` is the dict the request is
\* built from, the filters inferred from the query updated with the filters
\* argument when that is neither None nor empty
Analyzed(call, inferred, filters) ==
    [call EXCEPT !.used = IF filters = None THEN inferred ELSE MergeFilters(inferred, filters)]

\* the state of a command loop before its first prompt
FreshLoop ==
    /\ loop = "prompt"
    /\ current_query = <<>>
    /\ current_results = <<>>
    /\ current_filters = EmptyDict
    /\ sorted_results = <<>>
    /\ result_offset = 0
    /\ history = <<>>
    /\ table = <<>>
    /\ notice = ""
    /\ opened = NoAction
    /\ command = ""
    /\ request = NoRequest

NoLoop == script = "none" /\ FreshLoop /\ args_sort = ""

----------------------------------------------------------------------------
(* Specification of the normalizers *)

InitNormalize ==
    /\ phase = "text"
    /\ views_str \in ViewTexts
    /\ parsed = NoOutcome
    /\ NoExtraction
    /\ NoAnalysis
    /\ NoLoop

Normalize ==
    /\ phase = "text"
    /\ phase' = "normalized"
    /\ parsed' = [v \in Variants |->
                    CASE v = "enhanced" -> parse_view_count_advanced(views_str)
                      [] v = "module" -> _parse_view_count(views_str)
                      [] v = "plain" -> parse_view_count(views_str)
                      [] v = "fixed" -> parse_view_count_fixed(views_str)]
    /\ UNCHANGED <<views_str, extractorVars, analyzerVars, loopVars>>

NextNormalize == Normalize

SpecNormalize == InitNormalize /\ [][NextNormalize]_vars

----------------------------------------------------------------------------
(* Specification of the extractors *)

InitExtract ==
    /\ phase = "page"
    /\ html \in ConformantPages \cup BrokenPages
    /\ max_results \in 0..MaxCap
    /\ found = NoResults
    /\ NoNormalization
    /\ NoAnalysis
    /\ NoLoop

Extract ==
    /\ phase = "page"
    /\ phase' = "extracted"
    /\ found' = [v \in Variants |->
                   CASE v = "enhanced" -> search_youtube_advanced(html, max_results)
                     [] v = "module" -> YouTubeSearcher_search(html, max_results)
                     [] v = "plain" -> SearchDirect("plain", html, max_results)
                     [] v = "fixed" -> SearchDirect("fixed", html, max_results)]
    /\ UNCHANGED <<html, max_results, normalizerVars, analyzerVars, loopVars>>

NextExtract == Extract

SpecExtract == InitExtract /\ [][NextExtract]_vars

----------------------------------------------------------------------------
(* Specification of the analyzer and the request builder: the head of
   search_youtube_advanced, up to the search URL *)

InitAnalyze ==
    /\ phase = "query"
    /\ query \in Queries
    /\ given_filters \in GivenFilters
    /\ auto_filters = EmptyDict
    /\ used_filters = EmptyDict
    /\ search_params = <<>>
    /\ NoNormalization
    /\ NoExtraction
    /\ NoLoop

Analyze ==
    /\ phase = "query"
    /\ phase' = "analyzed"
    /\ auto_filters' = parse_search_intent(query)
    /\ used_filters' = MergeFilters(auto_filters', given_filters)
    /\ search_params' = build_search_query(query, used_filters')
    /\ UNCHANGED <<query, given_filters, normalizerVars, extractorVars, loopVars>>

NextAnalyze == Analyze

SpecAnalyze == InitAnalyze /\ [][NextAnalyze]_vars

----------------------------------------------------------------------------
(* The interactive command loops of the four scripts *)

\* the caps the loops pass to their search functions
DefaultMaxResults == 25
FixedMaxResults == 20
ModuleMaxResults == 20

\* the responses a fetch may give while a loop runs: two videos listed in
\* ascending order of views, one live video, and the failures: no response,
\* no anchor, a data block without its last path key, and a video
\* whose title has no runs after a sound one
LoopPages ==
    { Page(TRUE, TRUE, TRUE, Len(PathKeys), <<"plain850", "verified2M">>),
      Page(TRUE, TRUE, TRUE, Len(PathKeys), <<"ad", "ad", "live12K">>),
      Page(FALSE, TRUE, TRUE, Len(PathKeys), <<>>),
      Page(TRUE, FALSE, TRUE, Len(PathKeys), <<"plain850">>),
      Page(TRUE, TRUE, TRUE, Len(PathKeys) - 1, <<"plain850">>),
      Page(TRUE, TRUE, TRUE, Len(PathKeys), <<"plain850", "noTitleRuns">>) }

\* what the search function of each script returns for each of these responses,
\* with the cap its loop passes
LoopFound ==
    [v \in Variants |->
       [page \in LoopPages |->
          CASE v = "enhanced" -> search_youtube_advanced(page, DefaultMaxResults)
            [] v = "module" -> YouTubeSearcher_search(page, ModuleMaxResults)
            [] v = "fixed" -> SearchDirect("fixed", page, FixedMaxResults)
            [] v = "plain" -> SearchDirect("plain", page, DefaultMaxResults)]]

LoopQueries == { <<"b", "e", "s", "t">>, <<"q", "u", "i", "c", "k">> }

\* what the user types after `refine` and after `filter`
RefineTerms == { <<"n", "e", "w">>, <<"h", "d">> }

\* the row numbers typed after info in the loops that search for the line
InfoNumbers == {0}

\* the line `info <n>` as the user types it
InfoLine(n) == <<"i", "n", "f", "o", " ">> \o <<CHOOSE c \in Digits : DigitVal(c) = n>>

\* the queries a session can hold: no query, a typed query, the line `next`
\* or an `info <n>` line, and what refines make of them
RECURSIVE RefinedUpTo(_, _)
RefinedUpTo(qs, n) ==
    IF n = 0 THEN qs
    ELSE qs \cup RefinedUpTo({q \o <<" ">> \o terms : q \in qs, terms \in RefineTerms}, n - 1)

SessionQueries ==
    RefinedUpTo(LoopQueries \cup {<<>>, <<"n", "e", "x", "t">>}
                    \cup {InfoLine(n) : n \in InfoNumbers}, MaxSearches)

\* what parse_search_intent infers from each of them
LoopInferred == [q \in SessionQueries |-> parse_search_intent(q)]

\* enhancer.parse_search_intent(query) in the loop
Inferred(q) == IF q \in SessionQueries THEN LoopInferred[q] ELSE parse_search_intent(q)
FilterChoices == { <<"hd", TRUE>>, <<"duration", "short">> }

\* the outcome of a display function: whether it printed a table, the rows of
\* that table, the notice it printed and the exception that left it ("" for none)
Shown(rows) == [exc |-> "", printed |-> TRUE, rows |-> rows, note |-> ""]

NothingShown == [exc |-> "", printed |-> FALSE, rows |-> <<>>, note |-> "No results found"]

Escaped(exc) == [exc |-> exc, printed |-> FALSE, rows |-> <<>>, note |-> ""]

\* display_results_enhanced / display_results_fixed: the rows are a sorted copy
DisplaySortedCopy(videos) ==
    IF videos = <<>> THEN NothingShown
    ELSE Shown(SortedDesc(videos, ViewsKeys(videos)))

\* yt_search.display.Display.show_results: the rows are the list as given
show_results(videos) ==
    IF videos = <<>> THEN NothingShown ELSE Shown(videos)

\* youtube_search.display_results: the key function normalizes the cleaned
\* text and may raise; the sorted list is printed and returned
display_results(videos) ==
    LET keys == [i \in 1..Len(videos) |-> parse_view_count(Get(videos[i], "views", <<"0">>))]
    IN  IF videos = <<>> THEN NothingShown
        ELSE IF \E i \in 1..Len(videos) : keys[i].raised
        THEN Escaped("ValueError")
        ELSE Shown(SortedDesc(videos, [i \in 1..Len(videos) |-> keys[i].value]))

\* what a display function leaves on the terminal: "No results found" prints
\* no table, so the table printed before stays the latest one
Displayed(shown) ==
    /\ table' = IF shown.printed THEN shown.rows ELSE table
    /\ notice' = shown.note

\* the truth value of a filters argument: None and the empty dict are false
Truthy(filters) == filters # None /\ filters # EmptyDict

\* `filters or {}`: a false argument gives a new empty dict
OrEmptyDict(filters) == IF Truthy(filters) THEN filters ELSE EmptyDict

\* The history entries as they read after a command.  An entry holds a
\* reference to the dict its search was given; `same` marks the entries whose
\* dict is the object the session holds as current_filters.  While the session
\* keeps that object the marked entries read its present value `filters`; once
\* the session holds another object no entry is marked.
Aliased(h, filters, keeps) ==
    [i \in 1..Len(h) |->
        IF ~keeps THEN [h[i] EXCEPT !.same = FALSE]
        ELSE IF h[i].same THEN [h[i] EXCEPT !.filters = filters]
        ELSE h[i]]

\* a session that adds the new records to the ones it holds
SessionSearchMerging(q, filters, own, page, r) ==
    /\ current_query' = q
    /\ current_filters' = OrEmptyDict(filters)
    /\ result_offset' = 0
    /\ current_results' = current_results \o r.videos
    /\ history' = Append(Aliased(history, filters, own /\ Truthy(filters)),
                         [query |-> q, filters |-> filters, results |-> Len(r.videos),
                          same |-> Truthy(filters)])
    /\ Displayed(DisplaySortedCopy(r.videos))
    /\ request' = Analyzed(Fetched(q, filters, page, r), Inferred(q), filters)
    /\ UNCHANGED <<loop, sorted_results>>

\* a session whose search function has no `except Exception`: an exception
\* other than KeyError leaves the loop, which catches only KeyboardInterrupt
\* and EOFError
SessionSearchUncaught(q, filters, own, page, r) ==
    /\ current_query' = q
    /\ current_filters' = OrEmptyDict(filters)
    /\ result_offset' = 0
    /\ loop' = IF r.caught \in {"", "KeyError"} THEN loop ELSE "crashed"
    /\ current_results' = IF r.caught \in {"", "KeyError"} THEN r.videos ELSE current_results
    /\ history' = IF r.caught \in {"", "KeyError"}
                  THEN Append(Aliased(history, filters, own /\ Truthy(filters)),
                              [query |-> q, filters |-> filters, results |-> Len(r.videos),
                               same |-> Truthy(filters)])
                  ELSE history
    /\ Displayed(DisplaySortedCopy(r.videos))
    /\ request' = Analyzed(Fetched(q, filters, page, r), Inferred(q), filters)
    /\ UNCHANGED sorted_results

\* SearchSession.search(q, filters), once the search function returned r for
\* the response `page`; own: the argument is the session's current_filters
\* object, as refine_search and filter_results pass it
SessionSearch(q, filters, own, page, r) ==
    /\ current_query' = q
    /\ current_filters' = OrEmptyDict(filters)
    /\ result_offset' = 0
    /\ current_results' = r.videos
    /\ history' = Append(Aliased(history, filters, own /\ Truthy(filters)),
                         [query |-> q, filters |-> filters, results |-> Len(r.videos),
                          same |-> Truthy(filters)])
    /\ Displayed(DisplaySortedCopy(r.videos))
    /\ request' = Analyzed(Fetched(q, filters, page, r), Inferred(q), filters)
    /\ UNCHANGED <<loop, sorted_results>>

\* a search that passes the stored filters on
SearchEnhancedKeepingFilters(q, page) ==
    SessionSearch(q, current_filters, TRUE, page, LoopFound.enhanced[page])

\* `search <query>` and free text in the enhanced loop
SearchEnhanced(q, page) ==
    SessionSearch(q, None, FALSE, page, LoopFound.enhanced[page])

ModuleSearched(q, page, r) ==
    /\ current_results' = r.videos
    /\ Displayed(show_results(r.videos))
    /\ request' = Fetched(q, None, page, r)
    /\ UNCHANGED <<loop, current_query, current_filters, sorted_results, result_offset, history>>

\* `search <query>` and free text in the module loop
SearchModule(q, page) ==
    ModuleSearched(q, page, LoopFound.module[page])

FixedSearched(q, page, r, typed) ==
    /\ current_query' = IF typed THEN q ELSE current_query
    /\ current_results' = r.videos
    /\ Displayed(DisplaySortedCopy(r.videos))
    /\ request' = Fetched(q, None, page, r)
    /\ UNCHANGED <<loop, current_filters, sorted_results, result_offset, history>>

\* `search <query>` (typed) and free text in the fixed loop: only the command
\* stores the query
SearchFixed(q, page, typed) ==
    FixedSearched(q, page, LoopFound.fixed[page], typed)

\* sorted_results = display_results(...) of the plain loop: an exception of the
\* display function leaves the loop before the assignment; `kept` is the part
\* of sorted_results the command keeps
PlainDisplayed(kept, shown) ==
    /\ sorted_results' = IF shown.exc = "" THEN kept \o shown.rows ELSE sorted_results
    /\ loop' = IF shown.exc = "" THEN "prompt" ELSE "crashed"
    /\ Displayed(shown)

PlainSearched(q, page, r, typed) ==
    /\ current_query' = q
    /\ result_offset' = IF typed THEN 0 ELSE result_offset
    /\ current_results' = r.videos
    /\ PlainDisplayed(<<>>, display_results(r.videos))
    /\ request' = Fetched(q, None, page, r)
    /\ UNCHANGED <<current_filters, history>>

\* `search <query>` (typed) and free text in the plain loop: only the command
\* resets the offset
SearchPlain(q, page, typed) ==
    PlainSearched(q, page, LoopFound.plain[page], typed)

\* the search branch and the else branch of a loop, for the query q
RunSearch(q, page, typed) ==
    /\ phase = "loop"
    /\ loop = "prompt"
    /\ Len(history) < MaxSearches
    /\ CASE script = "enhanced" -> SearchEnhanced(q, page)
         [] script = "module" -> SearchModule(q, page)
         [] script = "fixed" -> SearchFixed(q, page, typed)
         [] script = "plain" -> SearchPlain(q, page, typed)
    /\ opened' = NoAction
    /\ UNCHANGED <<phase, script, args_sort, normalizerVars, extractorVars, analyzerVars>>

\* the user types `search <query>` or a line that is no command
Search(q, page, typed) ==
    /\ RunSearch(q, page, typed)
    /\ command' = IF typed THEN "search" ELSE "other"

NextWord == <<"n", "e", "x", "t">>

\* the user types `next` in the enhanced, fixed or module loop: no branch
\* tests for it, so the else branch searches for the line
NextAsQuery(page) ==
    /\ script # "plain"
    /\ RunSearch(NextWord, page, FALSE)
    /\ command' = "next"

\* a next branch that keeps the new batch only
PlainMoreReplacing(more_results) ==
    /\ result_offset' = result_offset + DefaultMaxResults
    /\ current_results' = more_results
    /\ PlainDisplayed(<<>>, display_results(more_results))

\* the `next` branch with results at hand, once the search function returned
PlainMore(more_results) ==
    /\ result_offset' = result_offset + DefaultMaxResults
    /\ current_results' = current_results \o more_results
    /\ PlainDisplayed(sorted_results, display_results(more_results))

\* the `next` branch with results at hand, for the response `page`
PlainNext(page, r) ==
    /\ PlainMore(r.videos)
    /\ request' = Fetched(current_query, None, page, r)

\* a next branch that tests the query instead of the results
HeldQuery == current_query # <<>>

\* `if current_results:` of the next branch
HeldResults == current_results # <<>>

\* the user types `next` in the plain loop, the only loop with that command
Next25(page) ==
    /\ phase = "loop"
    /\ loop = "prompt"
    /\ script = "plain"
    /\ result_offset < MaxNext * DefaultMaxResults
    /\ IF HeldResults
       THEN PlainNext(page, LoopFound.plain[page])
       ELSE /\ notice' = "No search results. Search something first!"
            /\ request' = NoRequest
            /\ UNCHANGED <<result_offset, current_results, sorted_results, loop, table>>
    /\ opened' = NoAction
    /\ command' = "next"
    /\ UNCHANGED <<phase, script, args_sort, current_query, current_filters, history,
                   normalizerVars, extractorVars, analyzerVars>>

\* parts[1].strip('"')
RECURSIVE StripQuotes(_)
StripQuotes(s) ==
    IF s # <<>> /\ Head(s) = "\"" THEN StripQuotes(Tail(s))
    ELSE IF s # <<>> /\ s[Len(s)] = "\"" THEN StripQuotes(SubSeq(s, 1, Len(s) - 1))
    ELSE s

\* a command of the enhanced loop that calls SearchSession.search
SessionCommand(q, filters, own, page) ==
    /\ phase = "loop"
    /\ loop = "prompt"
    /\ script = "enhanced"
    /\ Len(history) < MaxSearches
    /\ SessionSearch(q, filters, own, page, LoopFound.enhanced[page])
    /\ opened' = NoAction
    /\ UNCHANGED <<phase, script, args_sort, normalizerVars, extractorVars, analyzerVars>>

\* the user types `exact <query>`
Exact(q, page) ==
    /\ SessionCommand(StripQuotes(q), [exact |-> TRUE], FALSE, page)
    /\ command' = "exact"

\* a refine that puts the terms before the query and drops the filters
RefineTermsFirst(terms, page) ==
    /\ SessionCommand(terms \o <<" ">> \o current_query, None, FALSE, page)
    /\ command' = "refine"

\* the user types `refine <terms>`: SearchSession.refine_search
Refine(terms, page) ==
    /\ SessionCommand(current_query \o <<" ">> \o terms, current_filters, TRUE, page)
    /\ command' = "refine"

\* a filter command that starts from an empty dict
FilterReplacing(type, value, page) ==
    /\ SessionCommand(current_query, Put(EmptyDict, type, value), TRUE, page)
    /\ command' = "filter"

\* the user types `filter <type> <value>`, or `filter hd` for the value True:
\* SearchSession.filter_results
Filter(type, value, page) ==
    /\ SessionCommand(current_query, Put(current_filters, type, value), TRUE, page)
    /\ command' = "filter"

\* the user types `clear filters`
ClearFilters ==
    /\ phase = "loop"
    /\ loop = "prompt"
    /\ script = "enhanced"
    /\ current_filters' = EmptyDict
    /\ history' = Aliased(history, EmptyDict, FALSE)
    /\ notice' = "Filters cleared"
    /\ opened' = NoAction
    /\ command' = "clear"
    /\ request' = NoRequest
    /\ UNCHANGED <<phase, script, loop, current_query, current_results, sorted_results,
                   result_offset, table, args_sort, normalizerVars, extractorVars,
                   analyzerVars>>

\* the list open and url index: the plain loop keeps the displayed order in
\* sorted_results, the other loops index current_results
IndexedList == IF script = "plain" THEN sorted_results ELSE current_results

\* the commands of each loop that take a row number: the fixed and the module
\* loop have info, the enhanced and the plain loop have no such branch
IndexCommands ==
    [enhanced |-> {"open", "url"}, module |-> {"open", "url", "info"},
     fixed |-> {"open", "url", "info"}, plain |-> {"open", "url"}]

\* the user types `open <n>`, `url <n>` or `info <n>` with a whole number n
Act(cmd, n) ==
    /\ phase = "loop"
    /\ loop = "prompt"
    /\ cmd \in IndexCommands[script]
    /\ IF 0 <= n - 1 /\ n - 1 < Len(IndexedList)
       THEN /\ opened' = [cmd |-> cmd, n |-> n, id |-> IndexedList[n].id]
            /\ notice' = ""
       ELSE /\ opened' = NoAction
            /\ notice' = "Invalid video number"
    /\ command' = cmd
    /\ request' = NoRequest
    /\ UNCHANGED <<phase, script, loop, current_query, current_results, current_filters,
                   sorted_results, result_offset, history, table, args_sort,
                   normalizerVars, extractorVars, analyzerVars>>

\* the user types `open <word>`, `url <word>` or `info <word>` with a word
\* that int() rejects: ValueError, caught in the branch
ActOnWord(cmd) ==
    /\ phase = "loop"
    /\ loop = "prompt"
    /\ cmd \in IndexCommands[script]
    /\ opened' = NoAction
    /\ notice' = "Invalid number"
    /\ command' = cmd
    /\ request' = NoRequest
    /\ UNCHANGED <<phase, script, loop, current_query, current_results, current_filters,
                   sorted_results, result_offset, history, table, args_sort,
                   normalizerVars, extractorVars, analyzerVars>>

\* the user types `info <n>` in a loop without an info branch: the line
\* reaches the final else branch and is searched for
InfoAsQuery(n, page) ==
    /\ "info" \notin IndexCommands[script]
    /\ RunSearch(InfoLine(n), page, FALSE)
    /\ command' = "info"

InitLoop ==
    /\ phase = "loop"
    /\ script \in Variants
    /\ FreshLoop
    /\ args_sort = ""
    /\ NoNormalization
    /\ NoExtraction
    /\ NoAnalysis

NextLoop ==
    \/ \E q \in LoopQueries, page \in LoopPages, typed \in BOOLEAN : Search(q, page, typed)
    \/ \E page \in LoopPages : Next25(page)
    \/ \E page \in LoopPages : NextAsQuery(page)
    \/ \E q \in LoopQueries, page \in LoopPages : Exact(q, page)
    \/ \E terms \in RefineTerms, page \in LoopPages : Refine(terms, page)
    \/ \E f \in FilterChoices, page \in LoopPages : Filter(f[1], f[2], page)
    \/ ClearFilters
    \/ \E cmd \in {"open", "url", "info"}, n \in -1..MaxRow : Act(cmd, n)
    \/ \E cmd \in {"open", "url", "info"} : ActOnWord(cmd)
    \/ \E n \in InfoNumbers, page \in LoopPages : InfoAsQuery(n, page)

SpecLoop == InitLoop /\ [][NextLoop]_vars

----------------------------------------------------------------------------
(* The direct search mode of the yt_search module: yt-search [-n N] [-s S] query *)

\* the choices of the -s/--sort option
SortChoices == {"views", "date", "relevance"}

InitDirect ==
    /\ phase = "args"
    /\ script = "module"
    /\ args_sort \in SortChoices
    /\ max_results \in 0..MaxCap
    /\ html \in ConformantPages \cup BrokenPages
    /\ found = NoResults
    /\ FreshLoop
    /\ NoNormalization
    /\ NoAnalysis

\* yt_search.main.main with a query and without -i: the search is made with
\* the -n value, the list is shown as returned, args.sort is read nowhere
DirectSearched(results) ==
    /\ current_results' = results
    /\ Displayed(show_results(results))

DirectSearch ==
    /\ phase = "args"
    /\ phase' = "shown"
    /\ DirectSearched(YouTubeSearcher_search(html, max_results).videos)
    /\ UNCHANGED <<script, loop, current_query, current_filters, sorted_results, result_offset,
                   history, opened, args_sort, command, request, normalizerVars, extractorVars,
                   analyzerVars>>

NextDirect == DirectSearch

SpecDirect == InitDirect /\ [][NextDirect]_vars

----------------------------------------------------------------------------
(* Properties of the extractors *)

Conformant(page) ==
    page.fetched /\ page.anchor /\ page.json /\ WalkPath(page.data, 1).exc = ""

RECURSIVE VideosIn(_)
VideosIn(items) ==
    IF items = <<>> THEN <<>>
    ELSE (IF "videoRenderer" \in DOMAIN Head(items)
          THEN <<Head(items).videoRenderer>> ELSE <<>>) \o VideosIn(Tail(items))

RECURSIVE VideosOfSections(_)
VideosOfSections(sections) ==
    IF sections = <<>> THEN <<>>
    ELSE (IF "itemSectionRenderer" \in DOMAIN Head(sections)
          THEN VideosIn(Head(sections).itemSectionRenderer.contents) ELSE <<>>)
         \o VideosOfSections(Tail(sections))

\* the video-renderer entries of a conformant page, in document order
DocVideos(page) == VideosOfSections(WalkPath(page.data, 1).contents)

\* the video-renderer entry of the page that carries the id
EntryOf(page, id) ==
    LET docs == DocVideos(page)
    IN  docs[CHOOSE n \in 1..Len(docs) : docs[n].videoId = id]

\* the position in the page of the entry a record was made from
Position(id) == CHOOSE n \in 1..Len(IdNames) : IdNames[n] = id

\* no runs or badge list of the entry is an empty list
SoundLists(video) ==
    /\ RunsOf(video, "title") # <<>>
    /\ RunsOf(video, "ownerText") # <<>>
    /\ Get(video, "ownerBadges", <<EmptyDict>>) # <<>>

NormalizerOf(variant, text) ==
    CASE variant = "enhanced" -> parse_view_count_advanced(text)
      [] variant = "module" -> _parse_view_count(text)
      [] variant = "plain" -> parse_view_count(text)
      [] variant = "fixed" -> parse_view_count_fixed(text)

ViewTextParses(variant, video) ==
    ~NormalizerOf(variant, SimpleTextOf(video, "viewCountText", <<>>)).raised

\* C1: for every page and every cap >= 0, 0 included, the extractor returns at
\* most cap records.
C1_LengthAtMostCap ==
    phase = "extracted" =>
        \A v \in {"enhanced", "module"} : Len(found[v].videos) <= max_results

\* C2: the extractor returns the records in document order, whatever their
\* view counts.
C2_DocumentOrder ==
    phase = "extracted" =>
        \A v \in {"enhanced", "module"} :
            \A i, j \in 1..Len(found[v].videos) :
                i < j => Position(found[v].videos[i].id) < Position(found[v].videos[j].id)

\* C3: the view-count normalizer never raises: every text yields an integer.
C3_NormalizerNeverRaises ==
    phase = "normalized" => \A v \in Variants : ~parsed[v].raised

\* C4: a view-count text that does not parse costs no record: on a conformant
\* page whose entries are otherwise sound, with a cap that covers them, every
\* video entry yields its record, and an entry whose text did not parse has
\* view count 0.
C4_ParseFailureContained ==
    (/\ phase = "extracted"
     /\ Conformant(html)
     /\ max_results >= 1
     /\ max_results >= Len(DocVideos(html))
     /\ \A n \in 1..Len(DocVideos(html)) : SoundLists(DocVideos(html)[n]))
    => \A v \in {"enhanced", "module"} :
          /\ Len(found[v].videos) = Len(DocVideos(html))
          /\ \A n \in 1..Len(DocVideos(html)) :
                ~ViewTextParses(v, DocVideos(html)[n])
                => \E i \in 1..Len(found[v].videos) :
                      /\ found[v].videos[i].id = DocVideos(html)[n].videoId
                      /\ found[v].videos[i].views = Zero

\* C5: every field of a video entry has a default: on a conformant page, with
\* a cap that covers the entries, an entry with an absent field or an empty
\* runs or badge list still yields a record holding the defaults, and so does
\* every other entry.
C5_EveryFieldHasDefault ==
    \A v \in {"enhanced", "module"} :
        (/\ phase = "extracted"
         /\ Conformant(html)
         /\ max_results >= 1
         /\ max_results >= Len(DocVideos(html))
         /\ \A n \in 1..Len(DocVideos(html)) : ViewTextParses(v, DocVideos(html)[n]))
        => /\ Len(found[v].videos) = Len(DocVideos(html))
           /\ \A i \in 1..Len(found[v].videos) :
                 LET r == found[v].videos[i]
                     d == EntryOf(html, r.id)
                 IN  /\ "title" \notin DOMAIN d => r.title = "Unknown"
                     /\ "ownerText" \notin DOMAIN d => r.channel = "Unknown"
                     /\ "ownerBadges" \notin DOMAIN d => r.channel_verified = FALSE
                     /\ "viewCountText" \notin DOMAIN d => r.views = Zero
                     /\ "lengthText" \notin DOMAIN d => r.duration = ""
                     /\ "publishedTimeText" \notin DOMAIN d => r.age = ""

\* some entry of the badge list of the entry carries the verified style
AnyBadgeVerified(video) ==
    \E i \in 1..Len(Get(video, "ownerBadges", <<>>)) :
        Get(Get(video.ownerBadges[i], "metadataBadgeRenderer", EmptyDict), "style", "") = VERIFIED

\* C13: channelVerified of a record is true exactly when some entry of the
\* badge list of its video entry, at any position, carries the verified style.
C13_VerifiedIffAnyBadge ==
    phase = "extracted" =>
        \A v \in {"enhanced", "module"} :
            \A i \in 1..Len(found[v].videos) :
                found[v].videos[i].channel_verified
                    = AnyBadgeVerified(EntryOf(html, found[v].videos[i].id))

\* the rows of the table stand in descending order of view count
TableByViews ==
    \A i, j \in 1..Len(table) : i < j => ~Less(table[i].views, table[j].views)

\* the rows of the table stand in the order of the document
TableInDocumentOrder ==
    \A i, j \in 1..Len(table) : i < j => Position(table[i].id) < Position(table[j].id)

\* C14: in direct search mode the -s/--sort option decides the order of the
\* displayed results: views gives descending view count, relevance keeps the
\* order of the source.
C14_SortOptionDecidesOrder ==
    phase = "shown" =>
        /\ args_sort = "views" => TableByViews
        /\ args_sort = "relevance" => TableInDocumentOrder

\* the exception a fetched page makes the extractor catch: none without the
\* anchor, the decoder's with text that is no JSON, KeyError with a key of the
\* path missing
ExpectedCaught(page) ==
    IF ~page.anchor THEN ""
    ELSE IF ~page.json \/ ~IsJsonObject(DataBlock(page.text)) THEN "JSONDecodeError"
    ELSE "KeyError"

\* C18: without the anchor, with text after the anchor that is no JSON, or
\* with a key of the navigation path missing, the extractor returns the empty
\* sequence, and the exception, if there was one, was caught inside it.
C18_BrokenPageGivesEmpty ==
    (phase = "extracted" /\ html.fetched /\ ~Conformant(html))
    => \A v \in Variants : found[v] = Result(<<>>, ExpectedCaught(html))

\* a page whose path lacks a key below the first one was extracted
C18_PathKeyMissing ==
    /\ phase = "extracted"
    /\ html.fetched /\ html.anchor /\ html.json
    /\ html.data # EmptyDict
    /\ WalkPath(html.data, 1).exc = "KeyError"
    /\ found["enhanced"] = Result(<<>>, "KeyError")

Min(a, b) == IF a <= b THEN a ELSE b

\* the ids of the first n video-renderer entries of the page
FirstIds(page, n) == {DocVideos(page)[k].videoId : k \in 1..n}

RecordIds(videos) == {videos[i].id : i \in 1..Len(videos)}

\* C19: with a cap of at least 1 and v video-renderer entries inside item
\* sections, the extractor returns min(cap, v) records, one for each of the
\* first min(cap, v) video entries; other sections and other children yield
\* no record and do not count.
C19_FirstVideosUpToCap ==
    (phase = "extracted" /\ Conformant(html) /\ max_results >= 1)
    => \A v \in {"enhanced", "module"} :
          /\ Len(found[v].videos) = Min(max_results, Len(DocVideos(html)))
          /\ RecordIds(found[v].videos) = FirstIds(html, Min(max_results, Len(DocVideos(html))))

----------------------------------------------------------------------------
(* Properties of the normalizers *)

\* the cleaned text of the specification: separators and unit words removed
Cleaned(text) == Strip(Remove(Remove(Remove(text, <<",">>), ViewsWord), WatchingWord))

Suffixes == {"K", "M", "B"}

SuffixMultiplier(c) ==
    CASE c = "K" -> 1000 [] c = "M" -> 1000000 [] c = "B" -> 1000000000

\* an unsigned decimal number: digits with at most one point
IsDecimal(s) == (\A i \in 1..Len(s) : s[i] \in Digits \cup {"."}) /\ ParseFloat(s).ok

\* a decimal number followed by a final suffix
IsAbbreviated(c) ==
    Len(c) >= 2 /\ c[Len(c)] \in Suffixes /\ IsDecimal(SubSeq(c, 1, Len(c) - 1))

\* a suffix letter stands somewhere before the end of the text
SuffixInside(c) == \E i \in 1..(Len(c) - 1) : c[i] \in Suffixes

\* C11: the normalizer returns a non-negative integer for every text, a text
\* with a leading minus sign included.
C11_NonNegative ==
    phase = "normalized" =>
        \A v \in {"enhanced", "module"} : ~parsed[v].raised => parsed[v].value.m >= 0

\* C12: a cleaned text that is a decimal number and a final K, M or B yields
\* the number times 1,000, 1,000,000 or 1,000,000,000, truncated; a suffix
\* letter that is not the end of the cleaned text is not recognised, so the
\* text does not parse and yields 0.
C12_FinalSuffixScales ==
    phase = "normalized" =>
        \A v \in {"enhanced", "module", "fixed"} :
            /\ IsAbbreviated(Cleaned(views_str))
               => parsed[v] = Return(Scaled(ParseFloat(SubSeq(Cleaned(views_str), 1,
                                                                Len(Cleaned(views_str)) - 1)),
                                             SuffixMultiplier(Cleaned(views_str)[Len(Cleaned(views_str))])))
            /\ SuffixInside(Cleaned(views_str)) => parsed[v] = Return(Zero)

----------------------------------------------------------------------------
(* Properties of the analyzer and the request builder *)

HasTutorialHint(q) == AnyIn(tutorial_keywords, Lower(q))
HasShortHint(q) == Contains(Lower(q), W_short) \/ Contains(Lower(q), W_quick)
HasLongHint(q) == Contains(Lower(q), W_full) \/ Contains(Lower(q), W_complete)

\* the words of a text, split at blanks
RECURSIVE Tokens(_)
Tokens(s) ==
    IF s = <<>> THEN <<>>
    ELSE IF Head(s) = " " THEN Tokens(Tail(s))
    ELSE LET stops == {i \in 1..Len(s) : s[i] = " "}
             end == IF stops = {} THEN Len(s) + 1
                    ELSE CHOOSE i \in stops : \A j \in stops : i <= j
         IN  <<SubSeq(s, 1, end - 1)>> \o Tokens(SubSeq(s, end, Len(s)))

IsYear20dd(w) == Len(w) = 4 /\ w[1] = "2" /\ w[2] = "0" /\ w[3] \in Digits /\ w[4] \in Digits
IsYear202d(w) == IsYear20dd(w) /\ w[3] = "2"

\* C7: the duration, upload-date and HD filters bias the request: changing one
\* of them in the filter map changes the request parameters.
C7_FiltersBiasRequest ==
    phase = "analyzed" =>
        /\ \A d \in duration_filters :
              d # Get(used_filters, "duration", "")
              => build_search_query(query, Put(used_filters, "duration", d)) # search_params
        /\ \A d \in date_filters :
              d # Get(used_filters, "upload_date", "")
              => build_search_query(query, Put(used_filters, "upload_date", d)) # search_params
        /\ build_search_query(query, Put(used_filters, "hd", ~TruthyFlag(used_filters, "hd")))
              # search_params

\* C8 as stated: a query with both a 'short'/'quick' and a 'full'/'complete'
\* keyword is analyzed to duration long.
C8_LongWinsOverShort ==
    (phase = "analyzed" /\ HasShortHint(query) /\ HasLongHint(query))
    => Get(auto_filters, "duration", "") = "long"

\* C8 amended: a query with both a 'short'/'quick' and a 'full'/'complete'
\* keyword is analyzed to duration short.
C8_ShortWinsOverLong ==
    (phase = "analyzed" /\ HasShortHint(query) /\ HasLongHint(query))
    => Get(auto_filters, "duration", "") = "short"

C8_BothHintsAnalyzed ==
    phase = "analyzed" /\ HasShortHint(query) /\ HasLongHint(query)

\* C9: the duration rules override rule 1: a tutorial keyword with
\* 'short'/'quick' gives short, with 'full'/'complete' and no 'short'/'quick'
\* gives long, and alone gives medium.
C9_DurationRulesOverrideTutorial ==
    (phase = "analyzed" /\ HasTutorialHint(query))
    => Get(auto_filters, "duration", "") =
          (IF HasShortHint(query) THEN "short"
           ELSE IF HasLongHint(query) THEN "long"
           ELSE "medium")

C9_TutorialWithLongHintAnalyzed ==
    /\ phase = "analyzed"
    /\ HasTutorialHint(query) /\ HasLongHint(query) /\ ~HasShortHint(query)
    /\ auto_filters.duration = "long"

\* C10 as stated: every word of the form 20dd in the query is the year hint.
C10_YearHint20dd ==
    phase = "analyzed" =>
        \A n \in 1..Len(Tokens(query)) :
            IsYear20dd(Tokens(query)[n])
            => "year" \in DOMAIN auto_filters /\ auto_filters.year = Tokens(query)[n]

\* C10 amended: the year hint is the first word of the form 202d; a query
\* without such a word has no year hint, whatever other 20dd words it holds.
C10_YearHint202d ==
    phase = "analyzed" =>
        LET years == SelectSeq(Tokens(query), IsYear202d)
        IN  IF years = <<>> THEN "year" \notin DOMAIN auto_filters
            ELSE "year" \in DOMAIN auto_filters /\ auto_filters.year = years[1]

C10_OlderYearBesideHint ==
    /\ phase = "analyzed"
    /\ \E n \in 1..Len(Tokens(query)) :
          IsYear20dd(Tokens(query)[n]) /\ ~IsYear202d(Tokens(query)[n])
    /\ "year" \in DOMAIN auto_filters

----------------------------------------------------------------------------
(* Properties of the command loops *)

\* the latest command was an open or url that acted on a video
Acted == opened # NoAction

\* C6: in every script, the video `open N` or `url N` acts on is the video in
\* row N of the table displayed last, after any searches and next commands
C6_ActsOnDisplayedRow ==
    Acted => /\ opened.n \in 1..Len(table)
             /\ table[opened.n].id = opened.id

\* every record of the list `old` is a record of the list `new`
AllHeld(old, new) ==
    \A i \in 1..Len(old) : \E j \in 1..Len(new) : new[j] = old[i]

\* C15: in the enhanced script `next` loads more results for the current
\* query: the step leaves the current query as it was and the results held
\* before are still in the result list.
C15_NextLoadsMore ==
    [][(script = "enhanced" /\ command' = "next")
       => (current_query' = current_query /\ AllHeld(current_results, current_results'))]_vars

\* the plain loop has completed a search: only a search stores a query
SearchCompleted == current_query # <<>>

\* C16 as stated: `next` is accepted, and issues its fetch, exactly when a
\* search has completed, a search that produced no record included; before
\* any search it is rejected without a fetch.
C16_NextAfterAnySearch ==
    [][(script = "plain" /\ command' = "next") => (request'.issued <=> SearchCompleted)]_vars

\* C16 amended: `next` is accepted, and issues its fetch, exactly when the
\* result list holds a record; before any search and after a search that
\* produced no record it is rejected without a fetch and changes nothing held.
C16_NextWhenResultsHeld ==
    [][(script = "plain" /\ command' = "next")
       => /\ request'.issued <=> current_results # <<>>
          /\ ~request'.issued
             => UNCHANGED <<current_query, current_results, sorted_results, result_offset>>]_vars

C16_NextRejectedAfterEmptySearch ==
    /\ script = "plain" /\ command = "next"
    /\ SearchCompleted /\ ~request.issued
    /\ notice = "No search results. Search something first!"

\* the batches a fetch of the plain loop may return
PlainBatches == {SearchDirect("plain", page, DefaultMaxResults).videos : page \in LoopPages}

\* C17: an accepted `next` appends: the result list afterwards is the list
\* before followed by the fetched batch; no earlier record is removed,
\* reordered or dropped as a duplicate.
C17_NextAppends ==
    [][(script = "plain" /\ command' = "next" /\ request'.issued)
       => \E batch \in PlainBatches : current_results' = current_results \o batch]_vars

\* an accepted `next` has left two records with one id in the list
C17_DuplicateKept ==
    /\ script = "plain" /\ command = "next" /\ request.issued
    /\ \E i, j \in 1..Len(current_results) :
          i < j /\ current_results[i].id = current_results[j].id

----------------------------------------------------------------------------
(* Failures of a search in the enhanced loop *)

\* the latest command of the enhanced loop called the search function and the
\* fetch or the extraction failed
AfterFailedSearch == script = "enhanced" /\ request.issued /\ request.failure # ""

\* the session after a search: a query is held and the history has an entry
HasResults == history # <<>> /\ current_query = history[Len(history)].query

\* the commands the loop accepts: open always, the searching ones while the
\* history is below its bound
CommandsAccepted ==
    /\ loop = "prompt"
    /\ ENABLED (\E n \in 0..MaxRow : Act("open", n))
    /\ Len(history) < MaxSearches =>
          /\ ENABLED (\E q \in LoopQueries, page \in LoopPages : Search(q, page, TRUE))
          /\ ENABLED (\E terms \in RefineTerms, page \in LoopPages : Refine(terms, page))
          /\ ENABLED (\E f \in FilterChoices, page \in LoopPages : Filter(f[1], f[2], page))

\* C20: after a search whose fetch or extraction fails the session is in
\* HasResults with an empty result list, the search has added one history
\* entry with 0 results, and search, refine, filter and open are still accepted.
C20_FailedSearchLeavesSessionUsable ==
    /\ [][(script = "enhanced" /\ request'.issued /\ request'.failure # "")
            => /\ Len(history') = Len(history) + 1
               /\ history'[Len(history')].results = 0
               /\ history'[Len(history')].query = request'.query]_vars
    /\ [](AfterFailedSearch => HasResults /\ current_results = <<>> /\ CommandsAccepted)

\* a refine was processed after a search that failed, and its extraction
\* failed on an entry of the response
C20_RefinedAfterFailedSearch ==
    /\ script = "enhanced"
    /\ Len(history) = 2
    /\ history[1].results = 0
    /\ command = "refine"
    /\ request.failure = "IndexError"
    /\ current_results = <<>>
    /\ loop = "prompt"

----------------------------------------------------------------------------
(* The session of the enhanced loop *)

\* a step of the enhanced loop that called SearchSession.search
SessionSearchStep == script = "enhanced" /\ request'.issued

LastEntry(h) == h[Len(h)]

\* the session after search(request'.query, request'.filters) got r for `page`
SearchReplaced(page, r) ==
    /\ request'.failure = Fetched(request'.query, request'.filters, page, r).failure
    /\ current_results' = r.videos
    /\ current_query' = request'.query
    /\ Len(history') = Len(history) + 1
    /\ \A i \in 1..Len(history) :
          history'[i].query = history[i].query /\ history'[i].results = history[i].results
    /\ LastEntry(history').query = request'.query
    /\ LastEntry(history').filters = request'.filters
    /\ LastEntry(history').results = Len(r.videos)

\* C21: SearchSession.search replaces the result list by what the extraction
\* produced, sets the current query to the given query and appends exactly one
\* history entry holding the query, the filters and the number of results.
C21_SearchReplacesAndRecords ==
    [][SessionSearchStep
        => \E page \in LoopPages :
              SearchReplaced(page, LoopFound.enhanced[page])]_vars

\* a search that found one video came after a search that found two
C21_SmallerResultReplacedLarger ==
    /\ script = "enhanced"
    /\ Len(history) = 2
    /\ history[1].results = 2
    /\ history[2].results = 1
    /\ Len(current_results) = 1
    /\ current_query = history[2].query

\* the stored filters after d[key] = value
StoredUnder(key, value) ==
    /\ DOMAIN current_filters' = DOMAIN current_filters \cup {key}
    /\ current_filters'[key] = value
    /\ \A k \in DOMAIN current_filters \ {key} : current_filters'[k] = current_filters[k]

\* C22: filter_results stores the value under the key in the session's
\* filters, keeps every other stored filter and the current query, and runs
\* search with that query and the updated filters.
C22_FilterStoresAndSearches ==
    [][(script = "enhanced" /\ command' = "filter")
        => /\ \E f \in FilterChoices : StoredUnder(f[1], f[2])
           /\ current_query' = current_query
           /\ request'.issued
           /\ request'.query = current_query
           /\ request'.filters = current_filters']_vars

\* `filter hd` was processed while the exact filter was stored
C22_FilterAddedToExact ==
    /\ script = "enhanced"
    /\ command = "filter"
    /\ DOMAIN current_filters = {"exact", "hd"}
    /\ current_filters.exact = TRUE
    /\ current_filters.hd = TRUE
    /\ request.filters = current_filters

\* C23: refine_search runs search with the current query, one space and the
\* terms, and with the stored filters, which stay as they were; successive
\* refines so append their terms in order, each after one space.
C23_RefineAppendsTerms ==
    [][(script = "enhanced" /\ command' = "refine")
        => /\ \E terms \in RefineTerms : current_query' = current_query \o <<" ">> \o terms
           /\ request'.issued
           /\ request'.query = current_query'
           /\ request'.filters = current_filters
           /\ current_filters' = current_filters]_vars

\* two refines in a row, the second one with a filter stored
C23_RefinedTwice ==
    /\ script = "enhanced"
    /\ command = "refine"
    /\ Len(history) = 2
    /\ \E q \in LoopQueries \cup {<<>>} :
          /\ history[1].query = q \o <<" ", "n", "e", "w">>
          /\ current_query = q \o <<" ", "n", "e", "w", " ", "h", "d">>

----------------------------------------------------------------------------
(* The merge of inferred and explicit filters *)

\* C24: in the merged filters every key of the explicit filters has its
\* explicit value and every inferred key absent from them its inferred value.
C24_ExplicitWinsInferredKept ==
    phase = "analyzed"
    => /\ DOMAIN used_filters = DOMAIN auto_filters \cup DOMAIN given_filters
       /\ \A k \in DOMAIN given_filters : used_filters[k] = given_filters[k]
       /\ \A k \in DOMAIN auto_filters \ DOMAIN given_filters :
             used_filters[k] = auto_filters[k]

\* the query asked for a short and popular video, the user for a long one
C24_ExplicitOverInferredDuration ==
    /\ phase = "analyzed"
    /\ given_filters = [duration |-> "long"]
    /\ "duration" \in DOMAIN auto_filters
    /\ auto_filters.duration = "short"
    /\ "sort" \in DOMAIN auto_filters
    /\ used_filters.duration = "long"
    /\ used_filters.sort = auto_filters.sort

----------------------------------------------------------------------------
(* The sort by views *)

\* the records the module's loops hand to _sort_by_views
KeptVideos(r) == IF r.exc \in {"", "KeyError"} THEN r.videos ELSE <<>>

CollectedFrom(w, cap) ==
    IF w.exc # "" THEN <<>>
    ELSE KeptVideos(ItemLoop("module", w.contents, 1, 1, <<>>, cap))

LoadedCollected(l, cap) ==
    IF l.exc # "" \/ ~l.matched THEN <<>> ELSE CollectedFrom(WalkPath(l.data, 1), cap)

Collected(page, cap) == LoadedCollected(Loaded(page), cap)

IndexIn(list, rec) == CHOOSE i \in 1..Len(list) : list[i] = rec

\* out is the list in by descending views, equal views in the order of in
StableDescending(in, out) ==
    /\ Len(out) = Len(in)
    /\ \A i \in 1..Len(in) : \E j \in 1..Len(out) : out[j] = in[i]
    /\ \A i, j \in 1..Len(out) : i < j => out[i] # out[j]
    /\ \A i, j \in 1..Len(out) : i < j => ~Less(out[i].views, out[j].views)
    /\ \A i, j \in 1..Len(out) :
          (i < j /\ out[i].views = out[j].views) => IndexIn(in, out[i]) < IndexIn(in, out[j])

\* C25: sorting by views is a stable descending sort: the output is a
\* permutation of the input, view counts do not increase along it, and records
\* with equal view counts keep their relative order.
C25_SortStableDescending ==
    phase = "shown" => StableDescending(Collected(html, max_results), table)

\* the most viewed record stood after a less viewed one, and two records with
\* equal views follow it
C25_SortMovedRecordPastEqualPair ==
    /\ phase = "shown"
    /\ Len(table) = 3
    /\ Less(table[2].views, table[1].views)
    /\ table[2].views = table[3].views
    /\ Position(table[1].id) > Position(table[2].id)

----------------------------------------------------------------------------
(* The data block *)

\* the text from the opening brace to the brace that balances it
BalancedBlock(text) == SubSeq(text, 1, BalanceAt(text, 1, 0, FALSE))

\* C26: the data block taken from the page runs from the anchor's opening
\* brace to the brace that balances it, so a conformant page is parsed in
\* full whether or not `};` stands inside one of its string values.
C26_DataBlockBalanced ==
    (phase = "extracted" /\ Conformant(html))
    => /\ DataBlock(html.text) = BalancedBlock(html.text)
       /\ \A v \in Variants : found[v].caught # "JSONDecodeError"

----------------------------------------------------------------------------
(* The normalizers of the variants, side by side *)

\* C27: the view-count normalizers of the variants are the same function:
\* for every text they return the same integer, or fail alike.
C27_NormalizersAgree ==
    phase = "normalized" => \A v, w \in Variants : parsed[v] = parsed[w]

----------------------------------------------------------------------------
(* The filters of the session and of its history *)

\* C28: a history entry records the filters in force at the time of its
\* search: no later command changes the filters an earlier entry shows.
C28_HistoryFiltersFrozen ==
    [][script = "enhanced"
        => \A i \in 1..Len(history) : history'[i].filters = history[i].filters]_vars

\* the latest command was a search without explicit filters: `search <query>`,
\* free text, or the line `next`, which is free text to the enhanced loop
PlainSearchCommand(cmd) == cmd \in {"search", "other", "next"}

\* C29: a search without explicit filters resets the stored filters to empty,
\* so filters set by earlier filter or exact commands are not applied to that
\* search or to refine calls after it, and the filters inferred from a query
\* are never written into the stored filters.
C29_PlainSearchResetsFilters ==
    /\ [][(script = "enhanced" /\ PlainSearchCommand(command'))
            => /\ current_filters' = EmptyDict
               /\ request'.filters = None
               /\ request'.used = Inferred(request'.query)]_vars
    /\ [][(script = "enhanced" /\ PlainSearchCommand(command) /\ command' = "refine")
            => /\ request'.filters = EmptyDict
               /\ request'.used = Inferred(request'.query)
               /\ current_filters' = EmptyDict]_vars
    /\ [][(script = "enhanced" /\ request'.issued)
            => current_filters' = OrEmptyDict(request'.filters)]_vars

\* `best` was searched with a filter stored: the query alone gave the request
\* its sort filter, and the session stores no filter
C29_SearchedAfterFilter ==
    /\ script = "enhanced"
    /\ command = "search"
    /\ Len(history) = 2
    /\ Truthy(history[1].filters)
    /\ request.query = <<"b", "e", "s", "t">>
    /\ request.used = [sort |-> "views"]
    /\ current_filters = EmptyDict

\* an error notice of the row-number commands
ErrorNotices == {"Invalid video number", "Invalid number"}

\* the latest step was a row-number command that kept to the index test: an
\* action only on a row of the indexed list, otherwise an error notice and
\* the result list, the query and the filters as they were, no search made
RowCommandHeld ==
    /\ opened' # NoAction => /\ opened'.n \in 1..Len(IndexedList)
                             /\ opened'.id = IndexedList[opened'.n].id
    /\ UNCHANGED <<current_results, sorted_results, current_query, current_filters>>
    /\ ~request'.issued
    /\ opened' = NoAction => notice' \in ErrorNotices

\* C30: in every interactive loop, open N, url N and info N act only when
\* 1 <= N <= the length of the list they index; for any other N there is no
\* action, an error notice is printed, and the result list, the query and the
\* filters are unchanged
C30_RowCommandsGuarded ==
    [][command' \in {"open", "url", "info"} => RowCommandHeld]_vars

\* the same for the commands each loop has a branch for
RowCommandsOfLoopGuarded ==
    [][command' \in IndexCommands[script] => RowCommandHeld]_vars

====
